---------------------------- MODULE Spec2Model ----------------------------
(***************************************************************************)
(* A model of the DabbleBot cogs: the CaptchaGate verification flow        *)
(* (captchagate.py), its lockdown queue (lockdown.py), and the two voice   *)
(* channel cogs.  One guild is modelled.  Every coroutine is cut at the    *)
(* awaits where another handler can run on the event loop; the text        *)
(* between two cuts is one atomic action.                                  *)
(*                                                                         *)
(* Text is a sequence of one-character strings, so that split and strip    *)
(* are computed and not assumed.  Python dicts are sequences of records    *)
(* with an "id" field, in insertion order.  None is 0 for ids.             *)
(***************************************************************************)
EXTENDS Integers, Sequences, FiniteSets, TLC

(***************************************************************************)
(* Bounds of the model.                                                    *)
(***************************************************************************)
\* user ids 1..NumUsers may join the guild
NumUsers == 2
\* the clock runs from 0 to MaxTicks * LoopSeconds
MaxTicks == 2
\* live views (CaptchaView or RetryView) kept per member
MaxViews == 2
\* length of the text arguments of "challenge add"
MaxLen == 3
\* challenges a guild may hold
MaxChallenges == 2
\* guilds the bot is in (the voice channel cogs)
NumGuilds == 2
\* days the calendar runs over
MaxDays == 3
\* voice channels a guild may hold
MaxChannels == 2

(***************************************************************************)
(* Program constants.                                                      *)
(***************************************************************************)
\* @tasks.loop(seconds=60)
LoopSeconds == 60
\* default_guild["kick_timeout"]
DefaultKickTimeout == 300
\* default_guild["max_attempts"]
DefaultMaxAttempts == 3
\* captchaset_timeout: if seconds < 60
MinKickTimeout == 60
\* captchaset_attempts: if attempts < 1
MinMaxAttempts == 1
\* _send_captcha: top_n = 3
top_n == 3

Users == 1..NumUsers
Guilds == 1..NumGuilds

(***************************************************************************)
(* Text: str.split(',') and str.strip().                                   *)
(***************************************************************************)
Comma == ","
Space == " "

RECURSIVE SplitFrom(_, _, _)
\* the pieces of s from position i on, cur being the piece read so far
SplitFrom(s, i, cur) ==
    IF i > Len(s) THEN <<cur>>
    ELSE IF s[i] = Comma THEN <<cur>> \o SplitFrom(s, i + 1, <<>>)
         ELSE SplitFrom(s, i + 1, Append(cur, s[i]))

\* options.split(',')
Split(s) == SplitFrom(s, 1, <<>>)

RECURSIVE LStrip(_)
LStrip(s) == IF s # <<>> /\ Head(s) = Space THEN LStrip(Tail(s)) ELSE s

RECURSIVE RStrip(_)
RStrip(s) ==
    IF s # <<>> /\ s[Len(s)] = Space THEN RStrip(SubSeq(s, 1, Len(s) - 1)) ELSE s

\* o.strip()
Strip(s) == RStrip(LStrip(s))

\* [o.strip() for o in options.split(',')]
ParseOptions(options) ==
    LET parts == Split(options) IN [i \in 1..Len(parts) |-> Strip(parts[i])]

\* a bug: the list is only checked for not being empty
InList_NonEmpty(x, list) == list # <<>>

\* x in list
InList(x, list) == \E i \in 1..Len(list) : list[i] = x

(***************************************************************************)
(* Python dicts, as sequences of records with an "id" field.               *)
(***************************************************************************)
Keys(d) == [i \in 1..Len(d) |-> d[i].id]
Has(d, k) == \E i \in 1..Len(d) : d[i].id = k
Get(d, k) == d[CHOOSE i \in 1..Len(d) : d[i].id = k]
\* d[k] = r: an existing key keeps its place, a new key goes last
Put(d, k, r) ==
    IF Has(d, k) THEN [i \in 1..Len(d) |-> IF d[i].id = k THEN r ELSE d[i]]
    ELSE Append(d, r)
RECURSIVE Pop(_, _)
\* d.pop(k, None)
Pop(d, k) ==
    IF d = <<>> THEN <<>>
    ELSE IF Head(d).id = k THEN Tail(d) ELSE <<Head(d)>> \o Pop(Tail(d), k)

\* the elements of a sequence
Range(s) == {s[i] : i \in 1..Len(s)}


(***************************************************************************)
(* State.                                                                  *)
(***************************************************************************)
VARIABLES
    \* time.time(), in seconds
    now,
    \* guild.members: the user ids in the guild
    guild_members,
    \* the members who hold the role whose id is RoleId
    member_roles,
    \* the position of that role in the guild's role list (an admin may move it)
    role_position,
    \* CaptchaGate.active_captchas: a dict of sessions keyed by member id
    active_captchas,
    \* the CaptchaView and RetryView objects that still accept clicks
    views,
    \* per member: the coroutine in flight for that member and its locals
    task,
    \* the kick_timed_out_users loop: its state and the locals of the run
    kick_task,
    \* guild config (redbot Config, persisted)
    captcha_channel, success_role, kick_timeout, max_attempts, challenges,
    verification_mode, lockdown_enabled, lockdown_users, lockdown_message_id,
    \* the suspended run of _process_lockdown_queue
    lockdown_task,
    \* history: the click delivered, or the API call made, by the last step
    event,
    \* history, per user: how the latest session ended
    outcome,
    \* history, per user: incorrect answers given since the session was created
    wrong,
    \* history, per user: when the latest CaptchaView was sent (-1: never)
    last_challenge,
    \* history, per user: whether the user joined while lockdown was enabled
    joined_locked,
    \* history: the users whose session has seen max_attempts change
    max_changed,
    \* the day of datetime.datetime.now(), counted from the day the bot started
    today,
    \* guild.voice_channels, per guild: the channels in the order of creation
    voice_channels,
    \* DateChannelCog: the channel_update loop and the locals of its run
    date_task,
    \* VoiceChannelNameUpdater: its three attributes
    channel_name_list, current_name_index, voice_channel,
    \* VoiceChannelNameUpdater: the update_name loop and the locals of its run
    name_task

config_vars == <<captcha_channel, success_role, kick_timeout, max_attempts,
                 challenges, verification_mode, lockdown_enabled, lockdown_users,
                 lockdown_message_id>>
history_vars == <<outcome, wrong, last_challenge, joined_locked, max_changed>>
voice_vars == <<today, voice_channels, date_task, channel_name_list,
                current_name_index, voice_channel, name_task>>
vars == <<now, guild_members, member_roles, role_position, active_captchas, views,
          task, kick_task, config_vars, lockdown_task, event, history_vars,
          voice_vars>>

\* the one text channel and the one role of the modelled guild
ChannelId == 1
RoleId == 1
\* guild.me.top_role, as a position
BotTopPosition == 2

\* a message, channel or role id that is set
SomeId == 1
None == 0

(***************************************************************************)
(* Records.                                                                *)
(***************************************************************************)
\* on_member_join lines 480-487, _process_lockdown_queue lines 55-62
NewSession(m, t) ==
    [id |-> m, start_time |-> t, attempts |-> 0, message_id |-> None,
     public_message_id |-> None, error_message_id |-> None, channel_id |-> None]

NoChallenge ==
    [id |-> 0, image_url |-> <<>>, options |-> <<>>, correct_option |-> <<>>,
     last_used |-> 0]

\* the locals of a coroutine in flight
Locals(at, origin, user, label, correct, sel, kt, mode, chan) ==
    [at |-> at, origin |-> origin, user |-> user, label |-> label,
     correct_answer |-> correct, selected |-> sel, kick_timeout |-> kt,
     mode |-> mode, channel |-> chan]
Idle == Locals("idle", "", 0, <<>>, <<>>, NoChallenge, 0, "", None)
\* a coroutine started by `origin`, suspended before the step `at`
At(at, origin) == [Idle EXCEPT !.at = at, !.origin = origin]

\* CaptchaView.__init__ lines 23-30 (timeout: the view stops accepting clicks)
CaptchaView(m, correct, opts, timeout) ==
    [kind |-> "captcha", member |-> m, correct_answer |-> correct,
     options |-> opts, expires |-> now + timeout]
\* RetryView.__init__ lines 82-87
RetryView(m, timeout) ==
    [kind |-> "retry", member |-> m, correct_answer |-> <<>>,
     options |-> <<>>, expires |-> now + timeout]

ViewsOf(m) == {v \in views : v.member = m}

\* the locals of kick_timed_out_users: the keys not yet done (the first one is the
\* current user_id), the member whose kick_timeout is being read (checking), the
\* member being kicked, the start_time read at line 497; swept: when the last
\* complete run ended
IdleTask == [state |-> "idle", todo |-> <<>>, checking |-> 0, kicking |-> 0,
             start_time |-> 0, swept |-> -1]

\* kind: "click" and "retry_click" (user clicked a view of member), "add_roles"
\* and "kick" (the call was made for member; raised: it raised)
\* "challenge_add" (args: the correct_option, the options and the challenge_id of
\* the command), "challenge_remove" (args: the challenge_id),
\* "captchaset_timeout" and "captchaset_attempts" (args: the value given),
\* "captcha_sent" (a CaptchaView was sent to member; args: the challenge id),
\* "update_name" (a run of update_name began), "name_edit" (its
\* voice_channel.edit returned, or raised)
Ev(kind, user, member, raised) ==
    [kind |-> kind, user |-> user, member |-> member, raised |-> raised,
     args |-> <<>>]
NoEvent == Ev("none", 0, 0, FALSE)

NoLockdownTask == [at |-> "idle", queue |-> <<>>, current |-> 0]

(***************************************************************************)
(* The voice channel cogs: names, dates and channels.                      *)
(***************************************************************************)
\* "date-channel", and the "date-" of f"date-{date_str}"
DateChannelName == <<"d", "a", "t", "e", "-", "c", "h", "a", "n", "n", "e", "l">>
DatePrefix == <<"d", "a", "t", "e", "-">>

\* VoiceChannelNameUpdater.__init__: self.channel_name_list
DefaultNames ==
    <<<<"W", "e", "l", "c", "o", "m", "e", " ", "R", "o", "o", "m">>,
      <<"C", "h", "i", "l", "l", " ", "Z", "o", "n", "e">>,
      <<"L", "o", "u", "n", "g", "e">>,
      <<"G", "a", "m", "i", "n", "g", " ", "R", "o", "o", "m">>,
      <<"M", "u", "s", "i", "c", " ", "T", "i", "m", "e">>,
      <<"S", "t", "u", "d", "y", " ", "A", "r", "e", "a">>>>

\* the date of day i: the bot is started on 12/30/2024
Calendar(i) ==
    IF i <= 2 THEN [year |-> 2024, month |-> 12, day |-> 29 + i]
    ELSE [year |-> 2025, month |-> 1, day |-> i - 2]

\* a voice channel; created_as and created_on: the name and the day it was
\* created with (history)
Channel(name, day) == [name |-> name, created_as |-> name, created_on |-> day]

\* discord.utils.get(guild.voice_channels, name=name): the position of the first
\* channel with that name, None when there is none
ChannelNamed(channels, name) ==
    IF \E i \in 1..Len(channels) : channels[i].name = name
    THEN CHOOSE i \in 1..Len(channels) :
            /\ channels[i].name = name
            /\ \A j \in 1..(i - 1) : channels[j].name # name
    ELSE None

\* the locals of channel_update: the guilds not yet done (the first one is the
\* guild whose channel is being edited), channel, date_str; due: the loop has not run yet
\* today; raised: the guilds whose channel.edit raised in the latest run
IdleDateTask == [state |-> "idle", todo |-> <<>>, channel |-> None,
                 date_str |-> <<>>, due |-> FALSE, raised |-> {}]

\* the update_name loop; running: the loop is scheduled (an exception that leaves
\* update_name, or "stop_name_update", ends it); state: "idle" or "editing";
\* new_name and channel: the locals of the run suspended at channel.edit;
\* names: channel_name_list as it was when that run began (history)
IdleNameTask == [running |-> TRUE, state |-> "idle", new_name |-> <<>>,
                 channel |-> None, names |-> <<>>]

(***************************************************************************)
(* Init: the cog after __init__, on a guild with default config.           *)
(***************************************************************************)
\* DateChannelCog.__init__ and VoiceChannelNameUpdater.__init__, in guilds that
\* have no voice channel yet
InitVoice ==
    /\ today = 1
    /\ voice_channels = [g \in Guilds |-> <<>>]
    /\ date_task = IdleDateTask
    /\ channel_name_list = DefaultNames
    /\ current_name_index = 0
    /\ voice_channel = None
    /\ name_task = IdleNameTask

InitGate ==
    /\ now = 0
    /\ guild_members = {}
    /\ member_roles = {}
    /\ role_position = 1
    /\ active_captchas = <<>>
    /\ views = {}
    /\ task = [m \in Users |-> Idle]
    /\ kick_task = IdleTask
    /\ lockdown_task = NoLockdownTask
    /\ event = NoEvent
    /\ outcome = [m \in Users |-> "unverified"]
    /\ wrong = [m \in Users |-> 0]
    /\ last_challenge = [m \in Users |-> -1]
    /\ joined_locked = [m \in Users |-> FALSE]
    /\ max_changed = {}
    /\ InitVoice

DefaultConfig ==
    /\ captcha_channel = None
    /\ success_role = None
    /\ kick_timeout = DefaultKickTimeout
    /\ max_attempts = DefaultMaxAttempts
    /\ challenges = <<>>
    /\ verification_mode = "PUBLIC"
    /\ lockdown_enabled = FALSE
    /\ lockdown_users = <<>>
    /\ lockdown_message_id = None

Init == InitGate /\ DefaultConfig

(***************************************************************************)
(* Helpers of the handlers.                                                *)
(***************************************************************************)
Min(a, b) == IF a < b THEN a ELSE b

RECURSIVE InsertByLastUsed(_, _)
\* x placed behind every element that is not used later than x (sorted is stable)
InsertByLastUsed(sorted, x) ==
    IF sorted = <<>> THEN <<x>>
    ELSE IF Head(sorted).last_used <= x.last_used
         THEN <<Head(sorted)>> \o InsertByLastUsed(Tail(sorted), x)
         ELSE <<x>> \o sorted

RECURSIVE SortedByLastUsed(_)
\* sorted(challenge_items, key=lambda item: item[1].get("last_used", 0))
SortedByLastUsed(cs) ==
    IF cs = <<>> THEN <<>>
    ELSE InsertByLastUsed(SortedByLastUsed(SubSeq(cs, 1, Len(cs) - 1)), cs[Len(cs)])

\* _delete_channel_messages: the three tracked message ids are cleared
DeleteChannelMessages(data) ==
    [data EXCEPT !.message_id = None, !.public_message_id = None,
                 !.error_message_id = None]

\* _cleanup_messages_or_channel: the messages are deleted and the session popped
Cleanup(m) == Pop(active_captchas, m)

\* a bug: the choice is made among all the challenges
LeastUsedPool_All(cs) == cs

\* least_used_pool = sorted_challenges[:top_n]
LeastUsedPool(cs) ==
    LET sorted == SortedByLastUsed(cs) IN SubSeq(sorted, 1, Min(top_n, Len(sorted)))

\* a bug: interaction_check lets every user through
InteractionCheck_Anyone(user, view) == TRUE

\* interaction_check of CaptchaView and of RetryView
InteractionCheck(user, view) == user = view.member

\* a bug: process_answer takes every answer for the correct one
IsCorrect_Always(user_answer, correct_answer) == TRUE

\* process_answer: is_correct = user_answer == self.correct_answer
IsCorrect(user_answer, correct_answer) == user_answer = correct_answer

\* a bug: one attempt too many (> for >=)
AttemptsExhausted_Strict(current_attempts) == current_attempts > max_attempts

\* handle_failed_attempt: if current_attempts >= max_attempts
AttemptsExhausted(current_attempts) == current_attempts >= max_attempts

\* kick_timed_out_users: if (time.time() - start_time) > kick_timeout
TimedOut(start_time) == (now - start_time) > kick_timeout

\* a bug: the comparison with the bot's top role the wrong way round
CanGrant_Inverted(role_id) == role_id # None /\ role_position > BotTopPosition

\* grant_role_and_cleanup: if role_id: ... if role and role < member.guild.me.top_role
CanGrant(role_id) == role_id # None /\ role_position < BotTopPosition

\* a bug: "challenge add" does not look for the id
IdTaken_Never(cs, challenge_id) == FALSE

\* challenge_add: if challenge_id in challenges
IdTaken(cs, challenge_id) == Has(cs, challenge_id)

\* a bug: the commands take every value
BelowMinimum_Never(value, minimum) == FALSE

\* captchaset_timeout: if seconds < 60; captchaset_attempts: if attempts < 1
BelowMinimum(value, minimum) == value < minimum

\* what the caller of _send_captcha does when it returns or raises: a handler
\* ends; _process_lockdown_queue sleeps and goes on, or is ended by the exception
AfterSend(origin, raised) ==
    IF origin # "lockdown" THEN lockdown_task
    ELSE IF raised THEN NoLockdownTask
    ELSE [lockdown_task EXCEPT !.at = "next", !.current = 0]

(***************************************************************************)
(* Members come and go.                                                    *)
(***************************************************************************)
\* on_member_join (users are not bots)
on_member_join(m) ==
    /\ m \notin guild_members
    /\ task[m].at = "idle"
    /\ Cardinality(ViewsOf(m)) < MaxViews
    /\ guild_members' = guild_members \cup {m}
    /\ joined_locked' = [joined_locked EXCEPT ![m] = lockdown_enabled]
    /\ IF challenges = <<>> \/ (verification_mode # "DM" /\ captcha_channel = None)
       THEN UNCHANGED <<active_captchas, task, outcome, wrong, max_changed>>
       ELSE /\ active_captchas' = Put(active_captchas, m, NewSession(m, now))
            /\ task' = [task EXCEPT ![m] = At("send", "join")]
            /\ outcome' = [outcome EXCEPT ![m] = "challenged"]
            /\ wrong' = [wrong EXCEPT ![m] = 0]
            /\ max_changed' = max_changed \ {m}
    /\ event' = NoEvent
    /\ UNCHANGED <<now, member_roles, role_position, views, kick_task, config_vars,
                   lockdown_task, last_challenge>>
    /\ UNCHANGED voice_vars

\* a member leaves the guild on their own; the cog has no on_member_remove
MemberLeaves(m) ==
    /\ m \in guild_members
    /\ guild_members' = guild_members \ {m}
    /\ member_roles' = member_roles \ {m}
    /\ event' = NoEvent
    /\ UNCHANGED <<now, role_position, active_captchas, views, task, kick_task,
                   config_vars, lockdown_task, history_vars>>
    /\ UNCHANGED voice_vars

(***************************************************************************)
(* _send_captcha, cut between reading the settings and writing last_used.  *)
(***************************************************************************)
\* lines 290-314: the settings are read and a challenge is chosen
SendSelect(m) ==
    /\ task[m].at = "send"
    /\ IF challenges = <<>>
       THEN /\ task' = [task EXCEPT ![m] = Idle]
            /\ lockdown_task' = AfterSend(task[m].origin, FALSE)
       ELSE /\ \E c \in Range(LeastUsedPool(challenges)) :
                 task' = [task EXCEPT ![m] =
                            [@ EXCEPT !.at = "deliver", !.selected = c,
                                      !.kick_timeout = kick_timeout,
                                      !.mode = verification_mode,
                                      !.channel = captcha_channel]]
            /\ UNCHANGED lockdown_task
    /\ event' = NoEvent
    /\ UNCHANGED <<now, guild_members, member_roles, role_position, active_captchas,
                   views, kick_task, config_vars, history_vars>>
    /\ UNCHANGED voice_vars

\* the session after the delivery of lines 344-464, dm_ok: member.send did not
\* raise discord.Forbidden
Delivered(data, mode, dm_ok) ==
    IF mode = "PUBLIC"
    THEN [DeleteChannelMessages(data) EXCEPT !.public_message_id = SomeId,
                                             !.message_id = SomeId]
    ELSE IF mode = "DM"
    THEN IF dm_ok
         THEN [DeleteChannelMessages(data) EXCEPT !.public_message_id = SomeId]
         ELSE [DeleteChannelMessages(data) EXCEPT !.error_message_id = SomeId]
    ELSE [data EXCEPT !.channel_id = SomeId, !.public_message_id = SomeId]

\* lines 317-464: last_used is written and the challenge delivered
SendDeliver(m) ==
    LET t == task[m]
        c == t.selected
    IN
    /\ t.at = "deliver"
    /\ task' = [task EXCEPT ![m] = Idle]
    /\ UNCHANGED <<now, guild_members, member_roles, role_position, kick_task,
                   captcha_channel, success_role, kick_timeout, max_attempts,
                   verification_mode, lockdown_enabled, lockdown_users,
                   lockdown_message_id, outcome, wrong, joined_locked, max_changed>>
    /\ IF ~Has(challenges, c.id)
       THEN \* line 319: challenges_config[selected_challenge_id] raises KeyError
            /\ lockdown_task' = AfterSend(t.origin, TRUE)
            /\ event' = NoEvent
            /\ UNCHANGED <<challenges, active_captchas, views, last_challenge>>
       ELSE
            /\ challenges' = Put(challenges, c.id,
                                 [Get(challenges, c.id) EXCEPT !.last_used = now])
            /\ IF t.mode # "PRIVATE_CHANNEL" /\ t.channel = None
               THEN \* lines 350, 378: if not channel: return
                    /\ lockdown_task' = AfterSend(t.origin, FALSE)
                    /\ event' = NoEvent
                    /\ UNCHANGED <<active_captchas, views, last_challenge>>
               ELSE IF ~Has(active_captchas, m)
               THEN \* lines 353, 383, 436: self.active_captchas[member.id]
                    /\ lockdown_task' = AfterSend(t.origin, TRUE)
                    /\ event' = NoEvent
                    /\ UNCHANGED <<active_captchas, views, last_challenge>>
               ELSE \E dm_ok \in BOOLEAN :
                    /\ t.mode # "DM" => dm_ok
                    /\ active_captchas' =
                         Put(active_captchas, m,
                             Delivered(Get(active_captchas, m), t.mode, dm_ok))
                    /\ lockdown_task' = AfterSend(t.origin, FALSE)
                    /\ IF dm_ok
                       THEN /\ views' = views \cup
                                 {CaptchaView(m, c.correct_option, c.options,
                                              t.kick_timeout)}
                            /\ last_challenge' = [last_challenge EXCEPT ![m] = now]
                            /\ event' = [Ev("captcha_sent", 0, m, FALSE) EXCEPT
                                            !.args = <<c.id>>]
                       ELSE /\ views' = views \cup {RetryView(m, t.kick_timeout)}
                            /\ event' = NoEvent
                            /\ UNCHANGED last_challenge
    /\ UNCHANGED voice_vars

(***************************************************************************)
(* Clicks.  One handler per member is in flight at a time.                 *)
(***************************************************************************)
\* a click on a button of a CaptchaView: interaction_check, then
\* process_answer lines 58-64 (the view stops, the message is edited)
ClickCaptcha(user, v, label) ==
    /\ v \in views /\ v.kind = "captcha"
    /\ InList(label, v.options)
    /\ IF InteractionCheck(user, v)
       THEN /\ task[v.member].at = "idle"
            /\ views' = views \ {v}
            /\ task' = [task EXCEPT ![v.member] =
                          [At("answered", "click") EXCEPT
                              !.user = user, !.label = label,
                              !.correct_answer = v.correct_answer]]
            /\ wrong' = [wrong EXCEPT ![v.member] =
                           IF IsCorrect(label, v.correct_answer) THEN @ ELSE @ + 1]
       ELSE UNCHANGED <<views, task, wrong>>
    /\ event' = Ev("click", user, v.member, FALSE)
    /\ UNCHANGED <<now, guild_members, member_roles, role_position, active_captchas,
                   kick_task, config_vars, lockdown_task, outcome, last_challenge,
                   joined_locked, max_changed>>
    /\ UNCHANGED voice_vars

\* a click on the button of a RetryView: interaction_check, then
\* on_retry_click lines 96-107
ClickRetry(user, v) ==
    /\ v \in views /\ v.kind = "retry"
    /\ IF InteractionCheck(user, v)
       THEN /\ task[v.member].at = "idle"
            /\ views' = views \ {v}
            /\ task' = [task EXCEPT ![v.member] =
                          [At("retry", "retry") EXCEPT !.user = user]]
       ELSE UNCHANGED <<views, task>>
    /\ event' = Ev("retry_click", user, v.member, FALSE)
    /\ UNCHANGED <<now, guild_members, member_roles, role_position, active_captchas,
                   kick_task, config_vars, lockdown_task, history_vars>>
    /\ UNCHANGED voice_vars

\* process_answer lines 66-70 and grant_role_and_cleanup; added: add_roles did
\* not raise (it raises for a user who is no longer a member)
GrantRole(m, added) ==
    /\ task[m].at = "answered"
    /\ IsCorrect(task[m].label, task[m].correct_answer)
    /\ added => CanGrant(success_role) /\ m \in guild_members
    /\ member_roles' = IF CanGrant(success_role) /\ added
                       THEN member_roles \cup {m} ELSE member_roles
    /\ active_captchas' = Cleanup(m)
    /\ task' = [task EXCEPT ![m] = Idle]
    /\ outcome' = [outcome EXCEPT ![m] = IF m \in guild_members THEN "verified" ELSE @]
    /\ event' = IF CanGrant(success_role)
                THEN Ev("add_roles", task[m].user, m, ~added) ELSE NoEvent
    /\ UNCHANGED <<now, guild_members, role_position, views, kick_task, config_vars,
                   lockdown_task, wrong, last_challenge, joined_locked, max_changed>>
    /\ UNCHANGED voice_vars

\* process_answer lines 71-73 and handle_failed_attempt line 240
FailedAttemptCheck(m) ==
    /\ task[m].at = "answered"
    /\ ~IsCorrect(task[m].label, task[m].correct_answer)
    /\ IF Has(active_captchas, m)
       THEN task' = [task EXCEPT ![m] = At("count", "failed")]
       ELSE task' = [task EXCEPT ![m] = Idle]
    /\ event' = NoEvent
    /\ UNCHANGED <<now, guild_members, member_roles, role_position, active_captchas,
                   views, kick_task, config_vars, lockdown_task, history_vars>>
    /\ UNCHANGED voice_vars

\* handle_failed_attempt lines 242-252, up to the call of _kick_user or _send_captcha
FailedAttemptCount(m) ==
    /\ task[m].at = "count"
    /\ IF ~Has(active_captchas, m)
       THEN \* line 244: self.active_captchas[member.id] raises KeyError
            /\ task' = [task EXCEPT ![m] = Idle]
            /\ UNCHANGED active_captchas
       ELSE LET data == Get(active_captchas, m)
                current_attempts == data.attempts + 1
            IN /\ active_captchas' =
                    Put(active_captchas, m, [data EXCEPT !.attempts = current_attempts])
               /\ IF AttemptsExhausted(current_attempts)
                  THEN /\ task' = [task EXCEPT ![m] = At("kick", "failed")]
                  ELSE /\ task' = [task EXCEPT ![m] = At("send", "failed")]
    /\ event' = NoEvent
    /\ UNCHANGED <<now, guild_members, member_roles, role_position, views, kick_task,
                   config_vars, lockdown_task, history_vars>>
    /\ UNCHANGED voice_vars

\* _kick_user from line 282 on; kicked: member.kick did not raise (it raises for
\* a user who is no longer a member)
KickUser(m, kicked) ==
    /\ kicked => m \in guild_members
    /\ guild_members' = IF kicked THEN guild_members \ {m} ELSE guild_members
    /\ member_roles' = IF kicked THEN member_roles \ {m} ELSE member_roles
    /\ outcome' = [outcome EXCEPT ![m] = IF kicked THEN "kicked" ELSE @]
    /\ active_captchas' = Cleanup(m)
    /\ event' = Ev("kick", m, m, ~kicked)

\* _kick_user as called by handle_failed_attempt line 248
KickForAttempts(m, kicked) ==
    /\ task[m].at = "kick"
    /\ KickUser(m, kicked)
    /\ task' = [task EXCEPT ![m] = Idle]
    /\ UNCHANGED <<now, role_position, views, kick_task, config_vars, lockdown_task,
                   wrong, last_challenge, joined_locked, max_changed>>
    /\ UNCHANGED voice_vars

\* handle_dm_retry: the session read at line 256 is written at lines 267-268; the
\* await between the two (the deletion of the error message) is not a cut
handle_dm_retry(m) ==
    /\ task[m].at = "retry"
    /\ IF ~Has(active_captchas, m)
       THEN /\ task' = [task EXCEPT ![m] = Idle]
            /\ UNCHANGED active_captchas
       ELSE /\ active_captchas' =
                 Put(active_captchas, m,
                     [Get(active_captchas, m) EXCEPT !.error_message_id = None,
                                                     !.start_time = now])
            /\ task' = [task EXCEPT ![m] = At("send", "retry")]
    /\ event' = NoEvent
    /\ UNCHANGED <<now, guild_members, member_roles, role_position, views, kick_task,
                   config_vars, lockdown_task, history_vars>>
    /\ UNCHANGED voice_vars

(***************************************************************************)
(* kick_timed_out_users, cut at its awaits, and the clock.                 *)
(***************************************************************************)
RECURSIVE Scan(_, _, _)
\* lines 495-501: the iterations over the keys `todo`, up to the first await (line
\* 502, reached for a user who is a member of the guild)
Scan(sessions, members, todo) ==
    IF todo = <<>>
    THEN [IdleTask EXCEPT !.swept = now]
    ELSE IF ~Has(sessions, Head(todo))
    THEN \* line 496 raises KeyError: the loop ends for good
         [IdleTask EXCEPT !.state = "failed", !.swept = kick_task.swept]
    ELSE IF Head(todo) \notin members
    THEN Scan(sessions, members, Tail(todo))
    ELSE [IdleTask EXCEPT !.state = "running", !.todo = todo,
                          !.checking = Head(todo),
                          !.start_time = Get(sessions, Head(todo)).start_time,
                          !.swept = kick_task.swept]

\* line 495: a run starts, lists the keys and goes up to its first await
SweepStart ==
    /\ kick_task.state = "idle"
    /\ kick_task.swept < now
    /\ kick_task' = Scan(active_captchas, guild_members, Keys(active_captchas))
    /\ event' = NoEvent
    /\ UNCHANGED <<now, guild_members, member_roles, role_position, active_captchas,
                   views, task, config_vars, lockdown_task, history_vars>>
    /\ UNCHANGED voice_vars

\* lines 502-506: kick_timeout has been read; the member is kicked (up to the
\* await in _kick_user) or the run goes on
SweepCheck ==
    /\ kick_task.state = "running"
    /\ kick_task.checking # 0
    /\ kick_task.kicking = 0
    /\ kick_task' =
         IF TimedOut(kick_task.start_time)
         THEN [kick_task EXCEPT !.kicking = kick_task.checking]
         ELSE Scan(active_captchas, guild_members, Tail(kick_task.todo))
    /\ event' = NoEvent
    /\ UNCHANGED <<now, guild_members, member_roles, role_position, active_captchas,
                   views, task, config_vars, lockdown_task, history_vars>>
    /\ UNCHANGED voice_vars

\* _kick_user as called by line 505, and the run goes on
KickForTimeout(kicked) ==
    /\ kick_task.state = "running"
    /\ kick_task.kicking # 0
    /\ KickUser(kick_task.kicking, kicked)
    /\ kick_task' = Scan(Cleanup(kick_task.kicking),
                         IF kicked THEN guild_members \ {kick_task.kicking}
                         ELSE guild_members,
                         Tail(kick_task.todo))
    /\ UNCHANGED <<now, role_position, views, task, config_vars, lockdown_task,
                   wrong, last_challenge, joined_locked, max_changed>>
    /\ UNCHANGED voice_vars

\* LoopSeconds pass.  The loop has run for the current time unless it has ended,
\* and no handler stays suspended for that long.  The views past their timeout stop.
Tick ==
    /\ now < MaxTicks * LoopSeconds
    /\ \/ kick_task.state = "failed"
       \/ kick_task.state = "idle" /\ kick_task.swept = now
    /\ \A m \in Users : task[m].at = "idle"
    /\ lockdown_task.at = "idle"
    /\ now' = now + LoopSeconds
    /\ views' = {v \in views : v.expires > now + LoopSeconds}
    /\ event' = NoEvent
    /\ UNCHANGED <<guild_members, member_roles, role_position, active_captchas, task,
                   kick_task, config_vars, lockdown_task, history_vars>>
    /\ UNCHANGED voice_vars

(***************************************************************************)
(* The captchaset commands.                                                *)
(***************************************************************************)
gate_vars == <<now, guild_members, member_roles, role_position, active_captchas,
               views, task, kick_task, lockdown_task, history_vars>>

\* captchaset channel
captchaset_channel ==
    /\ captcha_channel' = ChannelId
    /\ event' = NoEvent
    /\ UNCHANGED <<gate_vars, success_role, kick_timeout, max_attempts, challenges,
                   verification_mode, lockdown_enabled, lockdown_users,
                   lockdown_message_id>>
    /\ UNCHANGED voice_vars

\* captchaset role
captchaset_role ==
    /\ IF role_position >= BotTopPosition
       THEN UNCHANGED success_role
       ELSE /\ success_role' = RoleId
    /\ event' = NoEvent
    /\ UNCHANGED <<gate_vars, captcha_channel, kick_timeout, max_attempts, challenges,
                   verification_mode, lockdown_enabled, lockdown_users,
                   lockdown_message_id>>
    /\ UNCHANGED voice_vars

\* an admin moves the role above or below the bot's top role
RoleMoves ==
    /\ role_position' = IF role_position < BotTopPosition
                        THEN BotTopPosition + 1 ELSE BotTopPosition - 1
    /\ event' = NoEvent
    /\ UNCHANGED <<now, guild_members, member_roles, active_captchas, views, task,
                   kick_task, config_vars, lockdown_task, history_vars>>
    /\ UNCHANGED voice_vars

\* captchaset timeout
captchaset_timeout(seconds) ==
    /\ IF BelowMinimum(seconds, MinKickTimeout)
       THEN UNCHANGED kick_timeout
       ELSE /\ kick_timeout' = seconds
    /\ event' = [Ev("captchaset_timeout", 0, 0, FALSE) EXCEPT !.args = <<seconds>>]
    /\ UNCHANGED <<gate_vars, captcha_channel, success_role, max_attempts, challenges,
                   verification_mode, lockdown_enabled, lockdown_users,
                   lockdown_message_id>>
    /\ UNCHANGED voice_vars

\* captchaset attempts
captchaset_attempts(attempts) ==
    /\ IF BelowMinimum(attempts, MinMaxAttempts)
       THEN UNCHANGED <<max_attempts, max_changed>>
       ELSE /\ max_attempts' = attempts
            /\ max_changed' = IF attempts = max_attempts THEN max_changed
                              ELSE max_changed \cup Range(Keys(active_captchas))
    /\ event' = [Ev("captchaset_attempts", 0, 0, FALSE) EXCEPT !.args = <<attempts>>]
    /\ UNCHANGED <<now, guild_members, member_roles, role_position, active_captchas,
                   views, task, kick_task, lockdown_task, outcome, wrong,
                   last_challenge, joined_locked>>
    /\ UNCHANGED <<captcha_channel, success_role, kick_timeout, challenges,
                   verification_mode, lockdown_enabled, lockdown_users,
                   lockdown_message_id>>
    /\ UNCHANGED voice_vars

\* mode.upper(), on the words the model passes to captchaset mode
Upper(mode) ==
    CASE mode = "public" -> "PUBLIC"
      [] mode = "dm" -> "DM"
      [] mode = "private_channel" -> "PRIVATE_CHANNEL"
      [] mode = "Dm" -> "DM"
      [] OTHER -> mode

\* captchaset mode
captchaset_mode(mode) ==
    /\ LET upper == Upper(mode) IN
       IF upper \notin {"PUBLIC", "DM", "PRIVATE_CHANNEL"}
       THEN UNCHANGED verification_mode
       ELSE IF upper # "DM" /\ captcha_channel = None
       THEN UNCHANGED verification_mode
       ELSE /\ verification_mode' = upper
    /\ event' = NoEvent
    /\ UNCHANGED <<gate_vars, captcha_channel, success_role, kick_timeout, max_attempts,
                   challenges, lockdown_enabled, lockdown_users, lockdown_message_id>>
    /\ UNCHANGED voice_vars

\* captchaset challenge add
challenge_add(challenge_id, image_url, correct_option, options) ==
    /\ LET options_list == ParseOptions(options) IN
       IF ~InList(correct_option, options_list)
       THEN UNCHANGED challenges
       ELSE IF IdTaken(challenges, challenge_id)
       THEN UNCHANGED challenges
       ELSE /\ challenges' =
                 Put(challenges, challenge_id,
                     [id |-> challenge_id, image_url |-> image_url,
                      options |-> options_list, correct_option |-> correct_option,
                      last_used |-> now])
    /\ event' = [Ev("challenge_add", 0, 0, FALSE) EXCEPT
                    !.args = <<correct_option, options, challenge_id>>]
    /\ UNCHANGED <<gate_vars, captcha_channel, success_role, kick_timeout, max_attempts,
                   verification_mode, lockdown_enabled, lockdown_users,
                   lockdown_message_id>>
    /\ UNCHANGED voice_vars

\* captchaset challenge remove
challenge_remove(challenge_id) ==
    /\ IF ~Has(challenges, challenge_id)
       THEN UNCHANGED challenges
       ELSE /\ challenges' = Pop(challenges, challenge_id)
    /\ event' = [Ev("challenge_remove", 0, 0, FALSE) EXCEPT !.args = <<challenge_id>>]
    /\ UNCHANGED <<gate_vars, captcha_channel, success_role, kick_timeout, max_attempts,
                   verification_mode, lockdown_enabled, lockdown_users,
                   lockdown_message_id>>
    /\ UNCHANGED voice_vars

(***************************************************************************)
(* Lockdown (lockdown.py).  The keys of lockdown_users are user ids as     *)
(* text, as the JSON config stores them.                                   *)
(***************************************************************************)
DigitValue(c) ==
    CASE c = "0" -> 0 [] c = "1" -> 1 [] c = "2" -> 2 [] c = "3" -> 3 [] c = "4" -> 4
      [] c = "5" -> 5 [] c = "6" -> 6 [] c = "7" -> 7 [] c = "8" -> 8 [] c = "9" -> 9

RECURSIVE IntOf(_)
\* int(user_id_str)
IntOf(s) ==
    IF s = <<>> THEN 0
    ELSE 10 * IntOf(SubSeq(s, 1, Len(s) - 1)) + DigitValue(s[Len(s)])

DigitChar(d) ==
    CASE d = 0 -> "0" [] d = 1 -> "1" [] d = 2 -> "2" [] d = 3 -> "3" [] d = 4 -> "4"
      [] d = 5 -> "5" [] d = 6 -> "6" [] d = 7 -> "7" [] d = 8 -> "8" [] d = 9 -> "9"

RECURSIVE StrOf(_)
\* str(user_id), for user_id >= 0
StrOf(n) == IF n < 10 THEN <<DigitChar(n)>> ELSE Append(StrOf(n \div 10), DigitChar(n % 10))

\* captchaset lockdown <state>; api_ok: channel.send, or the deletion of the
\* announcement, did not raise
captchaset_lockdown(state, api_ok) ==
    /\ IF captcha_channel = None
       THEN UNCHANGED <<lockdown_enabled, lockdown_users, lockdown_message_id,
                           lockdown_task>>
       ELSE IF state = lockdown_enabled
       THEN UNCHANGED <<lockdown_enabled, lockdown_users, lockdown_message_id,
                           lockdown_task>>
       ELSE IF state
       THEN /\ lockdown_enabled' = api_ok
            /\ lockdown_message_id' = IF api_ok THEN SomeId ELSE lockdown_message_id
            /\ UNCHANGED <<lockdown_users, lockdown_task>>
       ELSE /\ lockdown_enabled' = FALSE
            /\ lockdown_message_id' = IF api_ok THEN None ELSE lockdown_message_id
            \* _process_lockdown_queue lines 37-47
            /\ IF lockdown_users = <<>>
               THEN UNCHANGED <<lockdown_users, lockdown_task>>
               ELSE /\ lockdown_users' = <<>>
                    /\ lockdown_task' = [at |-> "next", queue |-> lockdown_users,
                                         current |-> 0]
    /\ event' = NoEvent
    /\ UNCHANGED <<now, guild_members, member_roles, role_position, active_captchas,
                   views, task, kick_task, captcha_channel, success_role, kick_timeout,
                   max_attempts, challenges, verification_mode, history_vars>>
    /\ UNCHANGED voice_vars

\* _process_lockdown_queue lines 49-69: one iteration, up to _send_captcha
ProcessQueued ==
    /\ lockdown_task.at = "next"
    /\ IF lockdown_task.queue = <<>>
       THEN /\ lockdown_task' = NoLockdownTask
            /\ UNCHANGED <<active_captchas, task, outcome, wrong, max_changed>>
       ELSE LET user_id == IntOf(Head(lockdown_task.queue).id) IN
            IF user_id \in guild_members
            THEN /\ task[user_id].at = "idle"
                 /\ Cardinality(ViewsOf(user_id)) < MaxViews
                 /\ active_captchas' =
                      Put(active_captchas, user_id, NewSession(user_id, now))
                 /\ task' = [task EXCEPT ![user_id] = At("send", "lockdown")]
                 /\ lockdown_task' = [at |-> "sending",
                                      queue |-> Tail(lockdown_task.queue),
                                      current |-> user_id]
                 /\ outcome' = [outcome EXCEPT ![user_id] = "challenged"]
                 /\ wrong' = [wrong EXCEPT ![user_id] = 0]
                 /\ max_changed' = max_changed \ {user_id}
            ELSE /\ lockdown_task' = [lockdown_task EXCEPT !.queue = Tail(@)]
                 /\ UNCHANGED <<active_captchas, task, outcome, wrong, max_changed>>
    /\ event' = NoEvent
    /\ UNCHANGED <<now, guild_members, member_roles, role_position, views, kick_task,
                   config_vars, last_challenge, joined_locked>>
    /\ UNCHANGED voice_vars

(***************************************************************************)
(* Specifications.                                                         *)
(***************************************************************************)
Texts(alphabet, n) == UNION {[1..k -> alphabet] : k \in 0..n}

\* the button labels of the challenges the gate is run with
A == <<"a">>
B == <<"b">>

\* a challenge as "challenge add <id> <url> a a,b" stored it at time 0
ChallengeAB(id) ==
    [id |-> id, image_url |-> <<>>, options |-> <<A, B>>, correct_option |-> A,
     last_used |-> 0]

\* the coroutines of member m
Handlers(m) ==
    \/ SendSelect(m)
    \/ SendDeliver(m)
    \/ FailedAttemptCheck(m)
    \/ FailedAttemptCount(m)
    \/ handle_dm_retry(m)
    \/ \E ok \in BOOLEAN : GrantRole(m, ok) \/ KickForAttempts(m, ok)

Sweep ==
    \/ SweepStart
    \/ SweepCheck
    \/ \E ok \in BOOLEAN : KickForTimeout(ok)
    \/ Tick

\* the guild as an admin has set it up: a channel, a timeout, one challenge
Installed ==
    /\ captcha_channel = ChannelId
    /\ success_role = None
    /\ kick_timeout = 90
    /\ max_attempts = 2
    /\ challenges = <<ChallengeAB(1)>>
    /\ verification_mode \in {"PUBLIC", "DM", "PRIVATE_CHANNEL"}
    /\ lockdown_enabled = FALSE
    /\ lockdown_users = <<>>
    /\ lockdown_message_id = None

\* Spec: user 1 joins, leaves and is verified; every user clicks; the role and
\* max_attempts are set while sessions run
InitVerify == InitGate /\ Installed

NextVerify ==
    \/ on_member_join(1)
    \/ MemberLeaves(1)
    \/ Handlers(1)
    \/ \E user \in Users, v \in views : ClickRetry(user, v)
    \/ \E user \in Users, v \in views :
           \E label \in Range(v.options) : ClickCaptcha(user, v, label)
    \/ Sweep
    \/ captchaset_role
    \/ RoleMoves
    \/ \E attempts \in {0, 1, 2} : captchaset_attempts(attempts)

Spec == InitVerify /\ [][NextVerify]_vars

(***************************************************************************)
(* The verification flow (Spec).                                           *)
(***************************************************************************)
\* the session of member m has ended
Ended(m) == outcome[m] \in {"verified", "kicked"}

\* member m joins in this step
Joins(m) == m \notin guild_members /\ m \in guild_members'

\* C1: once a member's session has ended as verified or as kicked, no later step
\* changes that outcome or gives the member a session again, unless the member
\* joins anew
C1_LinearProgression ==
    [][\A m \in Users :
         Ended(m) /\ ~Joins(m) =>
            /\ outcome'[m] = outcome[m]
            /\ Has(active_captchas', m) => Has(active_captchas, m)]_vars

\* C2: the role is added to a member only by the step that handles the member's
\* own click on the correct option of a CaptchaView addressed to them
C2_RoleOnlyByOwnCorrectAnswer ==
    [][\A m \in Users :
         m \notin member_roles /\ m \in member_roles' =>
            /\ task[m].at = "answered"
            /\ task[m].origin = "click"
            /\ task[m].user = m
            /\ task[m].label = task[m].correct_answer
            /\ event' = Ev("add_roles", m, m, FALSE)]_vars

\* the role has been added to member 1, who answered their own CAPTCHA
C2_Witness ==
    /\ event = Ev("add_roles", 1, 1, FALSE)
    /\ 1 \in member_roles

\* grant_role_and_cleanup finishes for member m, who chose the correct option,
\* with a success role configured below the bot's top role
GrantsConfigured(m) ==
    /\ task[m].at = "answered"
    /\ task[m].label = task[m].correct_answer
    /\ task'[m].at = "idle"
    /\ success_role # None
    /\ role_position < BotTopPosition

C4_OnlyTargetActs ==
    [][event'.kind \in {"click", "retry_click"} /\ event'.user # event'.member =>
          UNCHANGED <<active_captchas, member_roles, guild_members, task, views,
                      wrong>>]_vars

\* another user has just clicked a view of a member who has a session
C4_Witness ==
    /\ event.kind \in {"click", "retry_click"}
    /\ event.user # event.member
    /\ Has(active_captchas, event.member)
    /\ event.member \in guild_members

\* handle_failed_attempt counts an incorrect answer of member m in this step
Counts(m) ==
    /\ task[m].at = "count"
    /\ task'[m].at # "count"
    /\ Has(active_captchas, m)

KickedForTimeout(m) ==
    /\ kick_task.kicking = m
    /\ kick_task'.kicking = 0
    /\ m \in guild_members
    /\ m \notin guild_members'

\* the sweep is about to kick member 1, who has been verified in the meantime
C1_KickPendingForVerified ==
    /\ kick_task.kicking = 1
    /\ outcome[1] = "verified"
    /\ 1 \in guild_members
    /\ 1 \in member_roles

\* the sweep is about to kick member 1, whose retry click has restarted the
\* session's start_time in the meantime
C6_KickPendingAfterRetry ==
    /\ kick_task.kicking = 1
    /\ 1 \in guild_members
    /\ Has(active_captchas, 1)
    /\ Get(active_captchas, 1).start_time = now
    /\ Get(active_captchas, 1).attempts = 1
    /\ task[1].origin = "retry"

\* the sweep is about to kick member 1, who joined at 0, answered incorrectly at
\* LoopSeconds and was sent a new challenge then, less than kick_timeout ago
C7_KickPendingSoonAfterResend ==
    /\ kick_task.kicking = 1
    /\ 1 \in guild_members
    /\ Has(active_captchas, 1)
    /\ Get(active_captchas, 1).start_time = 0
    /\ Get(active_captchas, 1).attempts = 1
    /\ last_challenge[1] = LoopSeconds
    /\ now - last_challenge[1] < kick_timeout

\* C6: when the clock moves on, no member of the guild is left with a session
\* older than kick_timeout (the sweep has kicked them); and the sweep kicks a
\* member who has a session only when more than kick_timeout has passed since
\* its start_time
C6_TimeoutKick ==
    [][\A m \in Users :
         /\ now' # now /\ m \in guild_members /\ Has(active_captchas, m)
               => ~TimedOut(Get(active_captchas, m).start_time)
         /\ KickedForTimeout(m) /\ Has(active_captchas, m)
               => TimedOut(Get(active_captchas, m).start_time)]_vars

\* C7: the sweep kicks a member no sooner than kick_timeout after the latest
\* challenge was sent to them
C7_FullTimeoutAfterLatestChallenge ==
    [][\A m \in Users :
         KickedForTimeout(m) /\ last_challenge[m] >= 0
            => now - last_challenge[m] >= kick_timeout]_vars

(***************************************************************************)
(* Lockdown (SpecLockdown).  No handler of the repository writes           *)
(* lockdown_users, so the queue is drawn in Init as the Config store may   *)
(* hold it; the command is taken as attached to the captchaset group.      *)
(***************************************************************************)
\* the queue that holds the users `us`, in that order
QueueOf(us) == [i \in 1..Len(us) |-> [id |-> StrOf(us[i]), join_time |-> 0]]

Queues ==
    {QueueOf(us) : us \in {<<>>} \cup {<<u>> : u \in Users}
                          \cup {p \in Users \X Users : p[1] # p[2]}}

InstalledLocked ==
    /\ captcha_channel = ChannelId
    /\ success_role = None
    /\ kick_timeout = 90
    /\ max_attempts = 2
    /\ challenges = <<ChallengeAB(1)>>
    /\ verification_mode = "PUBLIC"
    /\ lockdown_enabled = FALSE
    /\ lockdown_users \in Queues
    /\ lockdown_message_id = None

InitLockdown == InitGate /\ InstalledLocked

NextLockdown ==
    \/ \E m \in Users : on_member_join(m)
    \/ \E m \in Users : SendSelect(m)
    \/ \E m \in Users : SendDeliver(m)
    \/ \E state \in BOOLEAN, api_ok \in BOOLEAN : captchaset_lockdown(state, api_ok)
    \/ ProcessQueued
    \/ challenge_remove(1)
    \/ Sweep

SpecLockdown == InitLockdown /\ [][NextLockdown]_vars

\* C8: a member who joins while lockdown is enabled is put in lockdown_users,
\* gets no session and is sent no CAPTCHA
C8_JoinersQueuedDuringLockdown ==
    [][\A m \in Users :
         Joins(m) /\ lockdown_enabled =>
            /\ Has(lockdown_users', StrOf(m))
            /\ ~Has(active_captchas', m)
            /\ task'[m].at = "idle"]_vars

\* lockdown is enabled, and member 1, who joined during it, has a session, has
\* been sent a CAPTCHA and is not in the queue
C8_ChallengedDuringLockdown ==
    /\ lockdown_enabled
    /\ joined_locked[1]
    /\ 1 \in guild_members
    /\ Has(active_captchas, 1)
    /\ \E v \in views : v.kind = "captcha" /\ v.member = 1
    /\ ~Has(lockdown_users, StrOf(1))

\* _process_lockdown_queue is done with the queued member m in this step
Processed(m) ==
    /\ lockdown_task.at = "sending"
    /\ lockdown_task.current = m
    /\ lockdown_task'.at # "sending"

\* _process_lockdown_queue skips the queued user u, who has left, in this step
Skipped(u) ==
    /\ lockdown_task.at = "next"
    /\ lockdown_task.queue # <<>>
    /\ IntOf(Head(lockdown_task.queue).id) = u
    /\ u \notin guild_members
    /\ lockdown_task' # lockdown_task

OptionTexts ==
    {s \in Texts({"a", Comma, Space}, MaxLen) :
        s # <<>> /\ Head(s) # Space /\ s[Len(s)] # Space}

\* the <correct_option> of "challenge add": one (quoted) word
AnswerTexts == Texts({"a", Space}, MaxLen - 2)

NextChallenges ==
    \/ \E challenge_id \in 1..MaxChallenges, correct_option \in AnswerTexts,
           options \in OptionTexts :
           challenge_add(challenge_id, <<>>, correct_option, options)
    \/ \E challenge_id \in 1..MaxChallenges : challenge_remove(challenge_id)

SpecChallenges == Init /\ [][NextChallenges]_vars

\* the command of this step is "challenge add" with a correct_option that is
\* not one of the stripped pieces of its options
AddsUnlisted ==
    /\ event'.kind = "challenge_add"
    /\ LET pieces == ParseOptions(event'.args[2])
       IN \A i \in 1..Len(pieces) : pieces[i] # event'.args[1]

\* C10: every stored challenge has its correct_option among its options, and
\* "challenge add" with a correct_option that is not in the options list leaves
\* the stored challenges as they were
C10_CorrectOptionAmongOptions ==
    /\ [](\A c \in Range(challenges) :
            \E i \in 1..Len(c.options) : c.options[i] = c.correct_option)
    /\ [][AddsUnlisted => UNCHANGED challenges]_vars

\* two challenges are stored, one of them with an option that was stripped
C10_Witness ==
    /\ Len(challenges) = MaxChallenges
    /\ \E c \in Range(challenges) :
          /\ Len(c.options) = 2
          /\ c.correct_option = <<"a">>
          /\ c.options[2] = <<"a">>
          /\ event.kind = "challenge_add"
          /\ event.args[2] = <<Comma, Space, "a">>

(***************************************************************************)
(* The admin commands over time (SpecAdmin).                               *)
(***************************************************************************)
\* "a" and "a,b", as the <options> of "challenge add"
OptionsA == <<"a">>
OptionsAB == <<"a", Comma, "b">>

\* the guild after __init__; an admin runs the captchaset commands while the
\* clock moves on (no member joins, so each run of the sweep finds no session)
NextAdmin ==
    \/ captchaset_channel
    \/ \E mode \in {"public", "Dm", "private"} : captchaset_mode(mode)
    \/ \E seconds \in {MinKickTimeout - 1, MinKickTimeout} : captchaset_timeout(seconds)
    \/ \E attempts \in {MinMaxAttempts - 1, MinMaxAttempts} :
           captchaset_attempts(attempts)
    \/ \E challenge_id \in 1..MaxChallenges, correct_option \in {A, B},
           options \in {OptionsA, OptionsAB} :
           challenge_add(challenge_id, <<>>, correct_option, options)
    \/ \E challenge_id \in 1..MaxChallenges : challenge_remove(challenge_id)
    \/ SweepStart
    \/ Tick

SpecAdmin == Init /\ [][NextAdmin]_vars

\* C11: no two stored challenges have the same id; "challenge add" with an id
\* that is already stored leaves every stored challenge as it was, last_used
\* included; "challenge remove" with an id that is not stored leaves the stored
\* challenges as they were
C11_RejectedCommandsChangeNothing ==
    /\ [](\A i, j \in 1..Len(challenges) :
            challenges[i].id = challenges[j].id => i = j)
    /\ [][/\ event'.kind = "challenge_add" /\ Has(challenges, event'.args[3])
               => UNCHANGED challenges
          /\ event'.kind = "challenge_remove" /\ ~Has(challenges, event'.args[1])
               => UNCHANGED challenges]_vars

\* "challenge add 1 <url> a a" has just been refused: challenge 1, stored earlier
\* with the options a and b, is still there with its earlier last_used
C11_Witness ==
    /\ event.kind = "challenge_add"
    /\ event.args = <<A, OptionsA, 1>>
    /\ Has(challenges, 1)
    /\ Get(challenges, 1).options = <<A, B>>
    /\ Get(challenges, 1).last_used < now
    /\ Len(challenges) = MaxChallenges

\* C12: kick_timeout is never below 60 and max_attempts never below 1;
\* "captchaset timeout" with a value below 60 leaves kick_timeout as it was, and
\* "captchaset attempts" with a value below 1 leaves max_attempts as it was
C12_MinimaKept ==
    /\ [](kick_timeout >= 60 /\ max_attempts >= 1)
    /\ [][/\ event'.kind = "captchaset_timeout" /\ event'.args[1] < 60
               => UNCHANGED kick_timeout
          /\ event'.kind = "captchaset_attempts" /\ event'.args[1] < 1
               => UNCHANGED max_attempts]_vars

\* "captchaset timeout 59" has just been refused, after both values had been
\* set to their minima
C12_Witness ==
    /\ event.kind = "captchaset_timeout"
    /\ event.args = <<59>>
    /\ kick_timeout = 60
    /\ max_attempts = 1

(***************************************************************************)
(* The choice of the challenge (SpecRotation).                             *)
(***************************************************************************)
\* the guild with one challenge more than the pool holds, all added at time 0
InstalledPool ==
    /\ captcha_channel = ChannelId
    /\ success_role = None
    /\ kick_timeout = 90
    /\ max_attempts = DefaultMaxAttempts
    /\ challenges = [i \in 1..(top_n + 1) |-> ChallengeAB(i)]
    /\ verification_mode = "PUBLIC"
    /\ lockdown_enabled = FALSE
    /\ lockdown_users = <<>>
    /\ lockdown_message_id = None

InitRotation == InitGate /\ InstalledPool

\* member 1 joins, answers and leaves over time; challenge 1 may be removed
NextRotation ==
    \/ on_member_join(1)
    \/ MemberLeaves(1)
    \/ SendSelect(1)
    \/ SendDeliver(1)
    \/ \E v \in views : \E label \in Range(v.options) : ClickCaptcha(1, v, label)
    \/ FailedAttemptCheck(1)
    \/ FailedAttemptCount(1)
    \/ \E ok \in BOOLEAN : GrantRole(1, ok) \/ KickForAttempts(1, ok)
    \/ Sweep
    \/ challenge_remove(1)

SpecRotation == InitRotation /\ [][NextRotation]_vars

\* _send_captcha chooses a challenge for member m in this step
Selects(m) == task[m].at = "send" /\ task'[m].at = "deliver"

\* the stored challenges used less recently than challenge c
UsedEarlier(c) == {d \in Range(challenges) : d.last_used < c.last_used}

\* C13: the challenge chosen is a stored challenge with fewer than three stored
\* challenges used less recently; the challenge sent is the one chosen, and when
\* it is sent its last_used is the current time; a step that ends a session
\* (an answer, a kick) writes no last_used
C13_SentFromLeastUsedThree ==
    [][/\ \A m \in Users :
            Selects(m) =>
               /\ task'[m].selected \in Range(challenges)
               /\ Cardinality(UsedEarlier(task'[m].selected)) < 3
       /\ event'.kind = "captcha_sent" =>
            /\ task[event'.member].selected.id = event'.args[1]
            /\ Has(challenges', event'.args[1])
            /\ Get(challenges', event'.args[1]).last_used = now
            /\ \E v \in views' :
                  /\ v.member = event'.member
                  /\ v.correct_answer = task[event'.member].selected.correct_option
       /\ (\E m \in Users : Has(active_captchas, m) /\ ~Has(active_captchas', m))
            => UNCHANGED challenges]_vars

\* a CAPTCHA has just been sent while all four challenges are stored: one other
\* challenge had been sent at an earlier time, later than the last use of the
\* remaining two, so that it was the one outside the pool of three
C13_Witness ==
    /\ event.kind = "captcha_sent"
    /\ Len(challenges) = top_n + 1
    /\ Get(challenges, event.args[1]).last_used = now
    /\ \E c \in Range(challenges) :
          /\ c.id # event.args[1]
          /\ c.last_used < now
          /\ Cardinality(UsedEarlier(c)) = 2

(***************************************************************************)
(* DateChannelCog (DateChannelCog.py).                                     *)
(***************************************************************************)
\* the state of CaptchaGate, which the voice channel cogs do not touch
captcha_vars == <<gate_vars, config_vars>>

\* strftime's %m and %d: two digits
Pad2(n) == IF n < 10 THEN <<"0">> \o StrOf(n) ELSE StrOf(n)

\* now.strftime("%m/%d/%Y")
DateStr(date) ==
    Pad2(date.month) \o <<"/">> \o Pad2(date.day) \o <<"/">> \o StrOf(date.year)

\* line 26: discord.utils.get(guild.voice_channels, name="date-channel")
DateChannelOf(channels) == ChannelNamed(channels, DateChannelName)

RECURSIVE DateScan(_, _)
\* lines 24-38: the iterations over the guilds t.todo, up to the first await
\* (line 31, reached for a guild that has a channel named "date-channel")
DateScan(channels, t) ==
    IF t.todo = <<>> THEN [t EXCEPT !.state = "idle", !.channel = None]
    ELSE IF DateChannelOf(channels[Head(t.todo)]) = None
    THEN DateScan(channels, [t EXCEPT !.todo = Tail(@)])
    ELSE [t EXCEPT !.state = "editing",
                   !.channel = DateChannelOf(channels[Head(t.todo)])]

\* channel_update lines 20-31: a run starts, as the daily run of the loop or
\* (manual) by "start_date_update", and goes up to its first await
channel_update(manual) ==
    /\ date_task.state = "idle"
    /\ manual \/ date_task.due
    /\ date_task' =
         DateScan(voice_channels,
                  [state |-> "editing", todo |-> [g \in Guilds |-> g],
                   channel |-> None, date_str |-> DateStr(Calendar(today)),
                   due |-> IF manual THEN date_task.due ELSE FALSE, raised |-> {}])
    /\ event' = NoEvent
    /\ UNCHANGED <<captcha_vars, today, voice_channels, channel_name_list,
                   current_name_index, voice_channel, name_task>>

\* channel_update lines 31-36: channel.edit returns (ok) or raises
\* discord.Forbidden or discord.HTTPException, and the run goes on
ChannelEdit(ok) ==
    LET g == Head(date_task.todo)
        renamed == [voice_channels EXCEPT ![g][date_task.channel].name =
                       IF ok THEN DatePrefix \o date_task.date_str ELSE @]
    IN
    /\ date_task.state = "editing"
    /\ voice_channels' = renamed
    /\ date_task' =
         DateScan(renamed,
                  [date_task EXCEPT !.todo = Tail(@),
                                    !.raised = IF ok THEN @ ELSE @ \cup {g}])
    /\ event' = NoEvent
    /\ UNCHANGED <<captcha_vars, today, channel_name_list, current_name_index,
                   voice_channel, name_task>>

\* create_date_channel; ok: guild.create_voice_channel did not raise
create_date_channel(g, ok) ==
    /\ Len(voice_channels[g]) < MaxChannels
    /\ IF ChannelNamed(voice_channels[g], DateChannelName) # None
       THEN UNCHANGED voice_channels
       ELSE IF ok
       THEN voice_channels' =
               [voice_channels EXCEPT ![g] = Append(@, Channel(DateChannelName, today))]
       ELSE UNCHANGED voice_channels
    /\ event' = NoEvent
    /\ UNCHANGED <<captcha_vars, today, date_task, channel_name_list,
                   current_name_index, voice_channel, name_task>>

\* midnight: the day changes and the loop's run of the new day is due; the run of
\* the day before has ended (before_channel_update: the first run is at the
\* first midnight)
Midnight ==
    /\ today < MaxDays
    /\ date_task.state = "idle"
    /\ ~date_task.due
    /\ today' = today + 1
    /\ date_task' = [date_task EXCEPT !.due = TRUE]
    /\ event' = NoEvent
    /\ UNCHANGED <<captcha_vars, voice_channels, channel_name_list,
                   current_name_index, voice_channel, name_task>>

NextDate ==
    \/ \E manual \in BOOLEAN : channel_update(manual)
    \/ \E ok \in BOOLEAN : ChannelEdit(ok)
    \/ \E g \in Guilds, ok \in BOOLEAN : create_date_channel(g, ok)
    \/ Midnight

SpecDate == Init /\ [][NextDate]_vars

\* the daily run of channel_update has ended today
DailyRunDone == today >= 2 /\ date_task.state = "idle" /\ ~date_task.due

\* C14: once the daily run of a day has ended, every channel that was created
\* as "date-channel" on an earlier day is named "date-" followed by the date of
\* the day as MM/DD/YYYY, in every guild where channel.edit did not raise
C14_DateChannelUpdatedEveryDay ==
    DailyRunDone =>
       \A g \in Guilds \ date_task.raised :
          \A i \in 1..Len(voice_channels[g]) :
             LET c == voice_channels[g][i] IN
             c.created_as = DateChannelName /\ c.created_on < today
                => c.name = DatePrefix \o DateStr(Calendar(today))

\* the run of the third day has ended without an exception, and the channel
\* created as "date-channel" on the first day still bears the date of the second
C14_StaleDateOnThirdDay ==
    /\ today = 3
    /\ DailyRunDone
    /\ date_task.raised = {}
    /\ Len(voice_channels[1]) = 1
    /\ voice_channels[1][1].created_as = DateChannelName
    /\ voice_channels[1][1].created_on = 1
    /\ voice_channels[1][1].name =
          <<"d", "a", "t", "e", "-", "1", "2", "/", "3", "1", "/", "2", "0", "2", "4">>

(***************************************************************************)
(* VoiceChannelNameUpdater (NameUpdate.py).  The bot's first guild is      *)
(* guild 1; voice_channel is the position of the channel in its list.      *)
(***************************************************************************)
\* self.channel_name_list[self.current_name_index] (Python counts from 0)
CurrentName == channel_name_list[current_name_index + 1]

\* (self.current_name_index + 1) % len(self.channel_name_list)
NextIndex(index, n) == (index + 1) % n

\* on_ready; ok: guild.create_voice_channel did not raise
on_ready(ok) ==
    /\ name_task.state = "idle"
    /\ current_name_index < Len(channel_name_list)
    /\ LET found == ChannelNamed(voice_channels[1], CurrentName) IN
       IF found # None
       THEN /\ voice_channel' = found
            /\ UNCHANGED voice_channels
       ELSE /\ Len(voice_channels[1]) < MaxChannels
            /\ IF ok
               THEN /\ voice_channels' =
                         [voice_channels EXCEPT ![1] = Append(@, Channel(CurrentName, today))]
                    /\ voice_channel' = Len(voice_channels[1]) + 1
               ELSE /\ voice_channel' = None
                    /\ UNCHANGED voice_channels
    /\ event' = NoEvent
    /\ UNCHANGED <<captcha_vars, today, date_task, channel_name_list,
                   current_name_index, name_task>>

\* update_name lines 23-29: a run of the loop, up to voice_channel.edit
update_name ==
    /\ name_task.running
    /\ name_task.state = "idle"
    /\ IF voice_channel = None
       THEN UNCHANGED <<current_name_index, name_task>>
       ELSE LET index == NextIndex(current_name_index, Len(channel_name_list))
                new_name == channel_name_list[index + 1]
            IN /\ current_name_index' = index
               /\ IF voice_channels[1][voice_channel].name # new_name
                  THEN name_task' = [name_task EXCEPT !.state = "editing",
                                                      !.new_name = new_name,
                                                      !.channel = voice_channel,
                                                      !.names = channel_name_list]
                  ELSE UNCHANGED name_task
    /\ event' = Ev("update_name", 0, 0, FALSE)
    /\ UNCHANGED <<captcha_vars, today, voice_channels, date_task, channel_name_list,
                   voice_channel>>

\* update_name line 29: voice_channel.edit returns (ok), or raises and the
\* exception leaves update_name, which ends the loop
NameEdit(ok) ==
    /\ name_task.state = "editing"
    /\ voice_channels' =
         [voice_channels EXCEPT ![1][name_task.channel].name =
             IF ok THEN name_task.new_name ELSE @]
    /\ name_task' = [IdleNameTask EXCEPT !.running = name_task.running /\ ok]
    /\ event' = Ev("name_edit", 0, 0, ~ok)
    /\ UNCHANGED <<captcha_vars, today, date_task, channel_name_list,
                   current_name_index, voice_channel>>

\* the command create_voice_channel; ok: guild.create_voice_channel did not raise
create_voice_channel(ok) ==
    /\ current_name_index < Len(channel_name_list)
    /\ Len(voice_channels[1]) < MaxChannels
    /\ IF ok
       THEN /\ voice_channels' =
                 [voice_channels EXCEPT ![1] = Append(@, Channel(CurrentName, today))]
            /\ voice_channel' = Len(voice_channels[1]) + 1
       ELSE UNCHANGED <<voice_channels, voice_channel>>
    /\ event' = NoEvent
    /\ UNCHANGED <<captcha_vars, today, date_task, channel_name_list,
                   current_name_index, name_task>>

\* set_channel_names
set_channel_names(names) ==
    /\ IF names # <<>>
       THEN channel_name_list' = names
       ELSE UNCHANGED channel_name_list
    /\ event' = NoEvent
    /\ UNCHANGED <<captcha_vars, today, voice_channels, date_task,
                   current_name_index, voice_channel, name_task>>

\* stop_name_update: the loop ends after the run in flight
stop_name_update ==
    /\ name_task' = [name_task EXCEPT !.running = FALSE]
    /\ event' = NoEvent
    /\ UNCHANGED <<captcha_vars, today, voice_channels, date_task, channel_name_list,
                   current_name_index, voice_channel>>

\* start_name_update: update_name.start() raises RuntimeError while the loop
\* runs
start_name_update ==
    /\ IF name_task.running \/ name_task.state # "idle"
       THEN UNCHANGED name_task
       ELSE name_task' = [name_task EXCEPT !.running = TRUE]
    /\ event' = NoEvent
    /\ UNCHANGED <<captcha_vars, today, voice_channels, date_task, channel_name_list,
                   current_name_index, voice_channel>>

NextNames ==
    \/ \E ok \in BOOLEAN : on_ready(ok)
    \/ update_name
    \/ \E ok \in BOOLEAN : NameEdit(ok)
    \/ \E ok \in BOOLEAN : create_voice_channel(ok)
    \/ \E names \in {<<>>, <<A>>, <<A, B>>} : set_channel_names(names)
    \/ stop_name_update
    \/ start_name_update

SpecNames == Init /\ [][NextNames]_vars

\* update_name runs in this step with a known voice channel
RunsWithChannel == event'.kind = "update_name" /\ voice_channel # None

\* voice_channel.edit ends in this step, the list and the channel being those
\* the run began with
EditEnds ==
    /\ event'.kind = "name_edit"
    /\ name_task.names = channel_name_list
    /\ name_task.channel = voice_channel

\* C15: a run of update_name with a known voice channel sets
\* current_name_index to (index + 1) mod n, and when the run has ended the
\* channel is named channel_name_list[current_name_index]; a run while no voice
\* channel is known changes neither the index nor a channel
C15_RotatesThroughList ==
    [][/\ RunsWithChannel =>
            /\ current_name_index' =
                  (current_name_index + 1) % Len(channel_name_list)
            /\ name_task'.state = "idle" =>
                  voice_channels'[1][voice_channel].name =
                     channel_name_list[current_name_index' + 1]
       /\ EditEnds =>
            voice_channels'[1][voice_channel].name =
               channel_name_list[current_name_index + 1]
       /\ event'.kind = "update_name" /\ voice_channel = None
            => UNCHANGED <<current_name_index, voice_channels>>]_vars

\* voice_channel.edit has just raised in the first run of update_name: the index
\* is 1, the channel is still named "Welcome Room" and the loop has ended
C15_RotationEndedByException ==
    /\ event = Ev("name_edit", 0, 0, TRUE)
    /\ ~name_task.running
    /\ channel_name_list = DefaultNames
    /\ current_name_index = 1
    /\ voice_channel = 1
    /\ voice_channels[1][1].name = DefaultNames[1]

(***************************************************************************)
(* The sweep among several sessions (SpecSweep).                           *)
(***************************************************************************)
InitSweep == InitGate /\ Installed /\ verification_mode = "PUBLIC"

\* every user joins and answers their own CAPTCHA while the sweep runs
NextSweep ==
    \/ \E m \in Users : on_member_join(m)
    \/ \E m \in Users : SendSelect(m)
    \/ \E m \in Users : SendDeliver(m)
    \/ \E v \in views : \E label \in Range(v.options) : ClickCaptcha(v.member, v, label)
    \/ \E m \in Users : FailedAttemptCheck(m)
    \/ \E m \in Users : FailedAttemptCount(m)
    \/ \E m \in Users, ok \in BOOLEAN : GrantRole(m, ok)
    \/ \E m \in Users, ok \in BOOLEAN : KickForAttempts(m, ok)
    \/ Sweep

SpecSweep == InitSweep /\ [][NextSweep]_vars

\* C16: no run of kick_timed_out_users looks up a user id that is no longer in
\* active_captchas (line 496 never raises KeyError), so every run ends after
\* its last key and the loop keeps running
C16_SweepSurvivesRemovals == kick_task.state # "failed"

\* the loop has ended with a KeyError for member 2, who was verified during a
\* run; member 1 has been in the guild with a session for longer than
\* kick_timeout and is not kicked
C16_SweepEndedSessionLeft ==
    /\ kick_task.state = "failed"
    /\ outcome[2] = "verified"
    /\ 1 \in guild_members
    /\ Has(active_captchas, 1)
    /\ TimedOut(Get(active_captchas, 1).start_time)

(***************************************************************************)
(* _send_captcha after its awaits (SpecRotation).                          *)
(***************************************************************************)
\* _send_captcha, called for member m by a handler that found the session,
\* goes on in this step from the await of line 317
Resends(m) ==
    /\ task[m].at = "deliver"
    /\ task'[m].at # "deliver"
    /\ task[m].origin \in {"failed", "retry", "lockdown"}

\* C17: when _send_captcha writes last_used the chosen challenge is still
\* stored, and when _send_captcha, called from handle_failed_attempt,
\* handle_dm_retry or the lockdown queue, uses active_captchas[member.id] the
\* member's session is still there
C17_SessionAndChallengeStillThere ==
    [][\A m \in Users :
         /\ task[m].at = "deliver" /\ task'[m].at # "deliver"
               => Has(challenges, task[m].selected.id)
         /\ Resends(m) /\ Has(challenges, task[m].selected.id)
                       /\ (task[m].mode = "PRIVATE_CHANNEL" \/ task[m].channel # None)
               => Has(active_captchas, m)]_vars

\* handle_failed_attempt has called _send_captcha for member 1, after the second
\* incorrect answer, and a challenge has been chosen; meanwhile the sweep has
\* kicked member 1 and popped the session that line 353 is about to use
C17_ResendAfterTimeoutKick ==
    /\ task[1].at = "deliver"
    /\ task[1].origin = "failed"
    /\ task[1].mode = "PUBLIC"
    /\ task[1].channel # None
    /\ Has(challenges, task[1].selected.id)
    /\ ~Has(active_captchas, 1)
    /\ outcome[1] = "kicked"
    /\ event.kind = "kick"
    /\ wrong[1] = 2
    /\ last_challenge[1] = LoopSeconds

=============================================================================
